---- MODULE Spec2Model ----
(***************************************************************************)
(* A model of the live-reload engine of drainpixie/zero: the HTTP routing  *)
(* decision (serve), the WebSocket handshake (handle_websocket), the       *)
(* per-session select loop (handle_ws_connection), the tokio broadcast     *)
(* channel created in ZeroServer::new, and the filesystem watch bridge     *)
(* (watch).  Two builds of the session code exist in the repository:       *)
(* src/server.rs (ZeroServer, used by main.rs) and src/ws.rs + src/lib.rs.  *)
(* They differ in what a failed Pong send does; the variable `build`       *)
(* selects one of them in Init.                                            *)
(***************************************************************************)
EXTENDS Naturals, Integers, Sequences, FiniteSets, TLC

\* ------------------------------------------------------------------ bounds

\* Raw filesystem events the watch source raises in Spec.
MaxEvents == 2
\* Inbound WebSocket frames the clients send in Spec, over all connections.
MaxFrames == 1
\* Raw filesystem events of LagSpec: enough to overrun the channel.
LagEvents == 18
\* Inbound frames (disconnects) of LagSpec.
LagFrames == 1

\* ------------------------------------------------------- program constants

\* broadcast::channel(16): the ring buffer's capacity.
Capacity == 16

\* The connections: two concurrent clients, so that every claim about "any
\* other session" has another session to be about.
Conns == {"c1", "c2"}

Builds == {"server", "ws"}

\* A path, of a request or of a file under the root: its segments, the last
\* one without its extension, and the extension ("" when there is none).
\* "/" is Path(<< >>, ""), "/static/app.js" is Path(<<"static", "app">>, "js").
Path(segs, ext) == [segs |-> segs, ext |-> ext]

LiveReloadPath == Path(<<"__live_reload">>, "")
Paths == {LiveReloadPath, Path(<<"static", "app">>, "js")}
\* The Upgrade header of a request: absent, or one of these values.
Upgrades == {"absent", "websocket", "WebSocket"}

Payloads == {"a", "b"}
NoFrame == [k |-> "None", p |-> ""]
PingFrame(P) == [k |-> "Ping", p |-> P]
PongFrame(P) == [k |-> "Pong", p |-> P]
\* Message::Text("reload")
ReloadFrame == [k |-> "Text", p |-> "reload"]
CloseFrame == [k |-> "Close", p |-> ""]
\* What ws_rx.next() can yield: Some(Ok(frame)), Some(Err(e)), None.
RecvErr == [k |-> "Err", p |-> ""]
StreamEnd == [k |-> "End", p |-> ""]
OtherFrames == {[k |-> "Text", p |-> "hi"], [k |-> "Binary", p |-> "a"],
                PongFrame("a")}
Inbound == {PingFrame(P) : P \in Payloads} \cup OtherFrames
             \cup {CloseFrame, RecvErr, StreamEnd}

\* notify's event kinds, and an Err result of the watch source.
ChangeKinds == {"Modify", "Create", "Remove"}
FsKinds == ChangeKinds \cup {"Access", "Error"}

\* The key of RFC 6455's sample handshake; "" stands for a request without
\* a (readable) Sec-WebSocket-Key header: `.unwrap_or("")`.
RfcKey == "dGhlIHNhbXBsZSBub25jZQ=="
Keys == {RfcKey, "x3JJHMbDL1EzLkh9GBhXDw==", ""}

NoReq == [path |-> Path(<< >>, ""), upgrade |-> "", key |-> ""]

\* File contents, as tokens.
HtmlBytes == <<"<h1>", "zero", "</h1>">>
JsBytes == <<"let", "x">>
RawBytes == <<"0xFF", "0xFE">>
File(bytes, utf8) == [bytes |-> bytes, utf8 |-> utf8]

\* The tree under the root that the content claims are checked on.
AllFiles ==
  (Path(<<"static", "app">>, "js") :> File(JsBytes, TRUE))
  @@ (Path(<<"static", "page">>, "html") :> File(HtmlBytes, TRUE))
  @@ (Path(<<"pages", "index">>, "html") :> File(HtmlBytes, TRUE))
  @@ (Path(<<"pages", "about">>, "html") :> File(HtmlBytes, TRUE))
  @@ (Path(<<"pages", "docs", "index">>, "html") :> File(HtmlBytes, TRUE))
  @@ (Path(<<"pages", "raw">>, "html") :> File(RawBytes, FALSE))
  @@ (Path(<<"pages", "data">>, "json") :> File(JsBytes, TRUE))
  @@ (Path(<<"static", "css", "site">>, "css") :> File(JsBytes, TRUE))

\* The whole tree, the tree less one file, and the empty tree.
FileSystems ==
  {[f \in D |-> AllFiles[f]] :
     D \in {DOMAIN AllFiles, {}} \cup {DOMAIN AllFiles \ {f} : f \in DOMAIN AllFiles}}

\* The tree of the other specifications: one static file.
DefaultFiles == [f \in {Path(<<"static", "app">>, "js")} |-> AllFiles[f]]

\* The values of the PROD environment variable.
ProdValues == {"unset", "dev", "production"}

\* The requests of ContentSpec: "/", "/about", "/about.html", "/docs",
\* "/raw", "/data.json", "/missing", "/static/app.js", "/static/page.html",
\* "/static/missing.css", "/static/css" and the reload path.
ContentPaths ==
  {Path(<< >>, ""), Path(<<"about">>, ""), Path(<<"about">>, "html"), Path(<<"docs">>, ""),
   Path(<<"raw">>, ""), Path(<<"data">>, "json"), Path(<<"missing">>, ""),
   Path(<<"static", "app">>, "js"), Path(<<"static", "page">>, "html"),
   Path(<<"static", "missing">>, "css"), Path(<<"static", "css">>, ""),
   LiveReloadPath}

VARIABLES
  build,    \* which build of the session code runs
  prod,     \* the PROD environment variable of the process
  files,    \* the files under the root: path -> contents
  srv,      \* where run() is
  watcher,  \* where the watcher thread is
  werr,     \* lines the watcher thread has written to stderr
  hdr,      \* per connection: Sec-WebSocket-Accept of the response
  body,     \* per connection: the body of the response
  released, \* per connection: times the session's transport was dropped
  pc,       \* per connection: where its request / session task is
  req,      \* per connection: the parsed request (path, Upgrade header)
  resp,     \* per connection: the status serve() answered with
  flushed,  \* per connection: the 101 response is on the byte stream
  subs,     \* the live Receivers of the broadcast channel (rx_cnt)
  tail,     \* the broadcast channel's tail position
  next,     \* per connection: its Receiver's cursor
  subAt,    \* per connection: the tail position when it subscribed
  lagged,   \* per connection: recv() has returned Lagged
  nReload,  \* per connection: `reload` text frames sent
  nPong,    \* per connection: Pong frames sent
  lastOut,  \* per connection: the last frame sent
  inbox,    \* per connection: inbound frames not yet read by ws_rx.next()
  closedBy, \* per connection: what ended its session ("peer": an inbound
            \* Close, error or end of stream; "send": a failed send)
  fsq,      \* the watch source's mpsc queue
  nfs,      \* filesystem events raised so far
  nframes,  \* inbound frames sent by clients so far
  early,    \* per connection: change events published between its 101
            \* response and its subscribe()
  fresh     \* per connection: an event was published to it since its last
            \* `reload` frame

vars == <<build, prod, files, srv, watcher, werr, hdr, body, released, pc,
          req, resp, flushed, subs, tail, next, subAt, lagged, nReload,
          nPong, lastOut, inbox, closedBy, fsq, nfs, nframes, early, fresh>>

\* What is fixed once run() has reached its accept loop.
envVars == <<build, prod, files, srv>>
sessVars == <<subs, next, subAt, lagged, nReload, nPong, lastOut, inbox,
              closedBy, released>>
httpVars == <<req, resp, flushed, hdr, body>>
watchVars == <<tail, fsq, nfs, watcher, werr>>
histVars == <<early, fresh>>

\* ZeroServer::new: the broadcast channel is created, nothing is connected.
New ==
  /\ build \in Builds
  /\ pc = [c \in Conns |-> "idle"]
  /\ req = [c \in Conns |-> NoReq]
  /\ resp = [c \in Conns |-> "none"]
  /\ flushed = [c \in Conns |-> FALSE]
  /\ subs = {}
  /\ tail = 0
  /\ next = [c \in Conns |-> 0]
  /\ subAt = [c \in Conns |-> 0]
  /\ lagged = [c \in Conns |-> FALSE]
  /\ nReload = [c \in Conns |-> 0]
  /\ nPong = [c \in Conns |-> 0]
  /\ lastOut = [c \in Conns |-> NoFrame]
  /\ inbox = [c \in Conns |-> << >>]
  /\ closedBy = [c \in Conns |-> "none"]
  /\ released = [c \in Conns |-> 0]
  /\ hdr = [c \in Conns |-> ""]
  /\ body = [c \in Conns |-> << >>]
  /\ fsq = << >>
  /\ nfs = 0
  /\ nframes = 0
  /\ early = [c \in Conns |-> 0]
  /\ fresh = [c \in Conns |-> FALSE]
  /\ werr = 0

\* ZeroServer::new followed by run() up to its accept loop, with the watcher
\* thread attached to the root.
Init ==
  /\ New
  /\ prod = "unset"
  /\ files = DefaultFiles
  /\ srv = "accepting"
  /\ watcher = "watching"

\* The process before run(): main() has built the server.
StartInit ==
  /\ New
  /\ prod = "unset"
  /\ files = DefaultFiles
  /\ srv = "new"
  /\ watcher = "unspawned"

\* ----------------------------------------------------------------- startup

\* run(): TcpListener::bind(self.addr).await? returns the error to main.
Bind(ok) ==
  /\ srv = "new"
  /\ srv' = IF ok THEN "bound" ELSE "aborted"
  /\ UNCHANGED <<histVars, build, prod, files, pc, httpVars, sessVars,
                 watchVars, nframes>>

\* run(): self.watch()? spawns the watcher thread and returns Ok(()) at
\* once; run() goes on to its accept loop.
Watch ==
  /\ srv = "bound"
  /\ srv' = "accepting"
  /\ watcher' = "spawned"
  /\ UNCHANGED <<histVars, build, prod, files, pc, httpVars, sessVars, tail,
                 fsq, nfs, werr, nframes>>

\* What notify::recommended_watcher(tx) and watcher.watch(root, Recursive)
\* can do in the watcher thread.
StartOutcomes == {"ok", "create_failed", "attach_failed"}

\* The watcher thread up to its loop: both results are unwrapped, so a
\* failure panics the thread (and only the thread).
WatcherStart(outcome) ==
  /\ watcher = "spawned"
  /\ watcher' = IF outcome = "ok" THEN "watching" ELSE "panicked"
  /\ UNCHANGED <<histVars, envVars, pc, httpVars, sessVars, tail, fsq, nfs,
                 werr, nframes>>

\* ------------------------------------------------------- the accept value

\* The printable ASCII characters, from the space (32) to the tilde (126);
\* the quotes, the backtick and the backslash are written by name.
AsciiChars ==
  <<" ", "!", "(quote)", "#", "$", "%", "&", "(apostrophe)", "(", ")", "*", "+", ",",
    "-", ".", "/", "0", "1", "2", "3", "4", "5", "6", "7", "8", "9",
    ":", ";", "<", "=", ">", "?", "@", "A", "B", "C", "D", "E", "F",
    "G", "H", "I", "J", "K", "L", "M", "N", "O", "P", "Q", "R", "S",
    "T", "U", "V", "W", "X", "Y", "Z", "[", "(backslash)", "]", "^", "_", "(backtick)",
    "a", "b", "c", "d", "e", "f", "g", "h", "i", "j", "k", "l", "m",
    "n", "o", "p", "q", "r", "s", "t", "u", "v", "w", "x", "y", "z",
    "{", "|", "}", "~">>

\* str::as_bytes() of one ASCII character.
Byte(ch) == 31 + (CHOOSE i \in 1 .. Len(AsciiChars) : AsciiChars[i] = ch)

\* str::as_bytes()
as_bytes(chars) == [i \in 1 .. Len(chars) |-> Byte(chars[i])]

RECURSIVE Str(_)
\* The string made of these characters.
Str(chars) == IF chars = << >> THEN "" ELSE chars[1] \o Str(Tail(chars))

\* The characters of the request keys.
KeyChars(k) ==
  CASE k = RfcKey ->
      <<"d", "G", "h", "l", "I", "H", "N", "h", "b", "X", "B", "s",
        "Z", "S", "B", "u", "b", "2", "5", "j", "Z", "Q", "=", "=">>
    [] k = "x3JJHMbDL1EzLkh9GBhXDw==" ->
      <<"x", "3", "J", "J", "H", "M", "b", "D", "L", "1", "E", "z",
        "L", "k", "h", "9", "G", "B", "h", "X", "D", "w", "=", "=">>
    [] k = "" -> << >>

\* const WEBSOCKET_GUID
WEBSOCKET_GUID ==
  <<"2", "5", "8", "E", "A", "F", "A", "5", "-", "E", "9", "1", "4",
    "-", "4", "7", "D", "A", "-", "9", "5", "C", "A", "-", "C", "5",
    "A", "B", "0", "D", "C", "8", "5", "B", "1", "1">>

\* 32-bit words are pairs <<high 16 bits, low 16 bits>>.
Half == 65536

RECURSIVE Xor16(_, _)
Xor16(x, y) ==
  IF x = 0 THEN y
  ELSE IF y = 0 THEN x
  ELSE ((x + y) % 2) + 2 * Xor16(x \div 2, y \div 2)

RECURSIVE And16(_, _)
And16(x, y) ==
  IF x = 0 \/ y = 0 THEN 0
  ELSE (x % 2) * (y % 2) + 2 * And16(x \div 2, y \div 2)

Xor(a, b) == <<Xor16(a[1], b[1]), Xor16(a[2], b[2])>>
And(a, b) == <<And16(a[1], b[1]), And16(a[2], b[2])>>
Or(a, b) == <<a[1] + b[1] - And16(a[1], b[1]), a[2] + b[2] - And16(a[2], b[2])>>
Not(a) == <<Half - 1 - a[1], Half - 1 - a[2]>>

\* wrapping_add
Add(a, b) ==
  LET lo == a[2] + b[2]
      hi == a[1] + b[1] + (lo \div Half)
  IN <<hi % Half, lo % Half>>

RECURSIVE Pow2(_)
Pow2(n) == IF n = 0 THEN 1 ELSE 2 * Pow2(n - 1)

\* rotate_left by n, 0 < n < 16
RotlShort(a, n) ==
  <<((a[1] * Pow2(n)) % Half) + (a[2] \div Pow2(16 - n)),
    ((a[2] * Pow2(n)) % Half) + (a[1] \div Pow2(16 - n))>>

\* rotate_left by n, 0 < n < 32
Rotl(a, n) ==
  IF n = 16 THEN <<a[2], a[1]>>
  ELSE IF n > 16 THEN RotlShort(<<a[2], a[1]>>, n - 16)
  ELSE RotlShort(a, n)

\* SHA-1's padding: 0x80, zeros up to 56 mod 64, the bit length on 8 bytes.
Pad(msg) ==
  LET l == Len(msg)
      zeros == (119 - l) % 64
      bits == 8 * l
  IN msg \o <<128>> \o [i \in 1 .. zeros |-> 0]
         \o <<0, 0, 0, 0, (bits \div 16777216) % 256, (bits \div Half) % 256,
              (bits \div 256) % 256, bits % 256>>

\* The 16 big-endian words of the block that starts at byte `at`.
BlockWords(bytes, at) ==
  [i \in 1 .. 16 |->
     <<bytes[at + 4 * (i - 1)] * 256 + bytes[at + 4 * (i - 1) + 1],
       bytes[at + 4 * (i - 1) + 2] * 256 + bytes[at + 4 * (i - 1) + 3]>>]

RECURSIVE Schedule(_)
\* The message schedule: W[t] = rotl1(W[t-3] ^ W[t-8] ^ W[t-14] ^ W[t-16]).
Schedule(w) ==
  IF Len(w) = 80 THEN w
  ELSE LET t == Len(w) IN
    Schedule(Append(w, Rotl(Xor(Xor(w[t - 2], w[t - 7]),
                                Xor(w[t - 13], w[t - 15])), 1)))

\* The round function and constant of round t (0 .. 79).
F(t, b, c, d) ==
  IF t < 20 THEN Or(And(b, c), And(Not(b), d))
  ELSE IF t < 40 THEN Xor(Xor(b, c), d)
  ELSE IF t < 60 THEN Or(Or(And(b, c), And(b, d)), And(c, d))
  ELSE Xor(Xor(b, c), d)

K(t) ==
  IF t < 20 THEN <<23170, 31129>>
  ELSE IF t < 40 THEN <<28377, 60321>>
  ELSE IF t < 60 THEN <<36635, 48348>>
  ELSE <<51810, 49622>>

\* One round on <<a, b, c, d, e>>.
Round(st, w, t) ==
  <<Add(Add(Add(Add(Rotl(st[1], 5), F(t, st[2], st[3], st[4])), st[5]), K(t)),
        w[t + 1]),
    st[1], Rotl(st[2], 30), st[3], st[4]>>

RECURSIVE Rounds(_, _, _)
Rounds(st, w, t) ==
  IF t = 80 \/ Len(st) # 5 THEN st ELSE Rounds(Round(st, w, t), w, t + 1)

\* The compression of one block into the hash state h.
Compress(h, block) ==
  LET st == Rounds(h, Schedule(block), 0) IN
    [i \in 1 .. 5 |-> Add(h[i], st[i])]

RECURSIVE Blocks(_, _, _)
Blocks(h, bytes, at) ==
  IF at > Len(bytes) \/ Len(h) # 5 THEN h
  ELSE Blocks(Compress(h, BlockWords(bytes, at)), bytes, at + 64)

\* SHA-1's initial hash state.
H0 == <<<<26437, 8961>>, <<61389, 43913>>, <<39098, 56574>>, <<4146, 21622>>, <<50130, 57840>>>>

\* Sha1::new(), update(..), finalize(): the 20 bytes of the digest.
Sha1(msg) ==
  LET h == Blocks(H0, Pad(msg), 1) IN
    [i \in 1 .. 20 |->
       LET word == h[((i - 1) \div 4) + 1]
           half == word[(((i - 1) % 4) \div 2) + 1]
       IN IF i % 2 = 1 THEN half \div 256 ELSE half % 256]

\* The alphabet of base64's STANDARD engine.
Base64Chars ==
  <<"A", "B", "C", "D", "E", "F", "G", "H", "I", "J", "K", "L", "M",
    "N", "O", "P", "Q", "R", "S", "T", "U", "V", "W", "X", "Y", "Z",
    "a", "b", "c", "d", "e", "f", "g", "h", "i", "j", "k", "l", "m",
    "n", "o", "p", "q", "r", "s", "t", "u", "v", "w", "x", "y", "z",
    "0", "1", "2", "3", "4", "5", "6", "7", "8", "9", "+", "/">>

\* The last one or two bytes, padded with "=".
Base64Tail(rest) ==
  IF Len(rest) = 1
    THEN Base64Chars[(rest[1] \div 4) + 1]
           \o Base64Chars[((rest[1] % 4) * 16) + 1] \o "=="
    ELSE Base64Chars[(rest[1] \div 4) + 1]
           \o Base64Chars[((rest[1] % 4) * 16) + (rest[2] \div 16) + 1]
           \o Base64Chars[((rest[2] % 16) * 4) + 1] \o "="

RECURSIVE Base64(_)
\* BASE64.encode(bytes)
Base64(bytes) ==
  IF bytes = << >> THEN ""
  ELSE IF Len(bytes) < 3 THEN Base64Tail(bytes)
  ELSE Base64Chars[(bytes[1] \div 4) + 1]
         \o Base64Chars[((bytes[1] % 4) * 16) + (bytes[2] \div 16) + 1]
         \o Base64Chars[((bytes[2] % 16) * 4) + (bytes[3] \div 64) + 1]
         \o Base64Chars[(bytes[3] % 64) + 1]
         \o Base64(SubSeq(bytes, 4, Len(bytes)))

\* An accept value computed from the key alone.
AcceptWithoutGuid(key) == Base64(Sha1(as_bytes(KeyChars(key))))

\* compute_websocket_accept(key)
compute_websocket_accept(key) ==
  Base64(Sha1(as_bytes(KeyChars(key)) \o as_bytes(WEBSOCKET_GUID)))

RECURSIVE AcceptOf(_)
\* The accept values of these keys, computed once.
AcceptOf(ks) ==
  IF ks = {} THEN << >>
  ELSE LET k == CHOOSE x \in ks : TRUE IN
    (k :> compute_websocket_accept(k)) @@ AcceptOf(ks \ {k})

\* The accept value of every key a request of the model carries.
AcceptTable == AcceptOf(Keys)

\* ------------------------------------------------------------ HTTP routing

\* A router that looks at the path alone.
IsHandshakePathOnly(r) == r.path = LiveReloadPath

\* serve(): path == "/__live_reload" && Upgrade header == Some("websocket")
IsHandshake(r) == r.path = LiveReloadPath /\ r.upgrade = "websocket"

\* listener.accept() and hyper's parse of one request on the connection.
Accept(c, p, u, k) ==
  /\ srv = "accepting"
  /\ pc[c] = "idle"
  /\ pc' = [pc EXCEPT ![c] = "request"]
  /\ req' = [req EXCEPT ![c] = [path |-> p, upgrade |-> u, key |-> k]]
  /\ UNCHANGED <<histVars, envVars, resp, flushed, hdr, body, sessVars,
                 watchVars, nframes>>

\* ---------------------------------------------------------- serving files

\* const LIVE_RELOAD_SCRIPT, as tokens.
LIVE_RELOAD_SCRIPT ==
  <<"<script>", "new WebSocket('ws://' + window.location.host + '/__live_reload')",
    "</script>">>

\* std::env::var("PROD").map_or(true, |v| v == "dev")
is_livereload == prod \in {"unset", "dev"}

Response(status, bytes) == [status |-> status, body |-> bytes]
\* serve_file returned Err(io::Error).
IoError == Response("Err", << >>)
\* The body stream of a 200 response fails while it is read.
ReadFailure == <<"(read error)">>

\* not_found(): status 404, body "404 Not Found".
not_found == Response("404", <<"404 Not Found">>)

\* The directories of a tree: the proper prefixes of its files' paths.
IsDir(fs, f) ==
  /\ f.ext = ""
  /\ \E g \in DOMAIN fs :
       Len(f.segs) < Len(g.segs) /\ SubSeq(g.segs, 1, Len(f.segs)) = f.segs

\* File::open(path): a file opens, a missing path fails, and a directory
\* opens or fails as the platform has it.
OpenOutcomes(fs, f) ==
  IF f \in DOMAIN fs THEN {"file"}
  ELSE IF IsDir(fs, f) THEN {"dir", "fail"}
  ELSE {"fail"}

\* The match on path.extension() in serve_file.
ContentType(ext) ==
  CASE ext = "html" -> "text/html"
    [] ext = "css" -> "text/css"
    [] ext = "js" -> "application/javascript"
    [] ext = "png" -> "image/png"
    [] ext \in {"jpg", "jpeg"} -> "image/jpeg"
    [] ext = "gif" -> "image/gif"
    [] ext = "svg" -> "image/svg+xml"
    [] ext = "json" -> "application/json"
    [] ext = "wasm" -> "application/wasm"
    [] OTHER -> "application/octet-stream"

\* `inject && content_type == "text/html"`
Injects(inject, ext) == inject /\ ContentType(ext) = "text/html"

\* serve_file(path, inject) with File::open having had this outcome.
ServeOpened(fs, f, inject, opened) ==
  IF opened = "fail" THEN IoError
  ELSE IF Injects(inject, f.ext)
    THEN \* tokio::fs::read_to_string(path).await?
         IF opened = "file" /\ fs[f].utf8
           THEN Response("200", fs[f].bytes \o LIVE_RELOAD_SCRIPT)
           ELSE IoError
    ELSE \* the body streams the opened file
         Response("200", IF opened = "file" THEN fs[f].bytes ELSE ReadFailure)

\* serve_file(path, inject): what it can return.
serve_file(fs, f, inject) ==
  {ServeOpened(fs, f, inject, opened) : opened \in OpenOutcomes(fs, f)}

\* path.starts_with("/static/")
StartsWithStatic(p) == Len(p.segs) >= 2 /\ p.segs[1] = "static"

\* root.join("pages").join(path), then index.html for a directory or "/",
\* else the extension html for a path without one.
PagePath(fs, p) ==
  LET page_path == Path(<<"pages">> \o p.segs, p.ext) IN
    IF IsDir(fs, page_path) \/ p = Path(<< >>, "")
      THEN Path(page_path.segs \o <<"index">>, "html")
      ELSE IF page_path.ext = ""
        THEN Path(page_path.segs, "html")
        ELSE page_path

\* The file a request path resolves to.
Resolve(fs, p) == IF StartsWithStatic(p) THEN p ELSE PagePath(fs, p)

\* A server whose error path answers with an empty 200.
OrNotFoundEmpty(r) == IF r = IoError THEN Response("200", << >>) ELSE r

\* `.unwrap_or_else(|_| Self::not_found())`
OrNotFound(r) == IF r = IoError THEN not_found ELSE r

\* serve() past the handshake test: the responses it can give.
ServeContent(fs, p) ==
  {OrNotFound(r) : r \in serve_file(fs, Resolve(fs, p), ~StartsWithStatic(p))}

\* serve() on the parsed request.  A handshake goes to handle_websocket,
\* which spawns the session task (it awaits hyper::upgrade::on) and returns
\* the 101 response; anything else is answered by serve_file or not_found.
Serve(c) ==
  /\ pc[c] = "request"
  /\ IF IsHandshake(req[c])
       THEN /\ pc' = [pc EXCEPT ![c] = "upgrading"]
            /\ resp' = [resp EXCEPT ![c] = "101"]
            /\ hdr' = [hdr EXCEPT ![c] = AcceptTable[req[c].key]]
            /\ body' = [body EXCEPT ![c] = << >>]
       ELSE /\ pc' = [pc EXCEPT ![c] = "content"]
            /\ \E r \in ServeContent(files, req[c].path) :
                 /\ resp' = [resp EXCEPT ![c] = r.status]
                 /\ body' = [body EXCEPT ![c] = r.body]
            /\ UNCHANGED hdr
  /\ UNCHANGED <<histVars, envVars, req, flushed, sessVars, watchVars, nframes>>

\* The connection's next request: hyper keeps serving the connection after
\* a content response.
NextRequest(c) ==
  /\ pc[c] = "content"
  /\ pc' = [pc EXCEPT ![c] = "idle"]
  /\ req' = [req EXCEPT ![c] = NoReq]
  /\ resp' = [resp EXCEPT ![c] = "none"]
  /\ body' = [body EXCEPT ![c] = << >>]
  /\ UNCHANGED <<histVars, envVars, flushed, hdr, sessVars, watchVars, nframes>>

\* hyper writes the 101 response on the connection and then fulfils the
\* pending upgrade: hyper::upgrade::on(req).await is Ok(upgraded).
Flush101(c) ==
  /\ pc[c] = "upgrading"
  /\ pc' = [pc EXCEPT ![c] = "upgraded"]
  /\ flushed' = [flushed EXCEPT ![c] = TRUE]
  /\ UNCHANGED <<histVars, envVars, req, resp, hdr, body, sessVars,
                 watchVars, nframes>>

\* The connection fails before the upgrade: hyper::upgrade::on(req).await is
\* Err(e); the task logs "upgrade error" and ends without a session.
UpgradeErr(c) ==
  /\ pc[c] = "upgrading"
  /\ pc' = [pc EXCEPT ![c] = "failed"]
  /\ UNCHANGED <<histVars, envVars, httpVars, sessVars, watchVars, nframes>>

\* A session started on the raw connection without awaiting the upgrade.
UpgradeDoneEarly(c) == pc[c] \in {"upgrading", "upgraded"}

\* A subscription that replays the channel's buffered history.
SubscribeCursorReplays(tl) == IF tl > Capacity THEN tl - Capacity ELSE 0

\* reload_tx.subscribe(): the new Receiver's cursor is the channel's tail.
SubscribeCursor(tl) == tl

\* `Ok(upgraded) =>`: the session code runs only on a fulfilled upgrade.
UpgradeDone(c) == pc[c] = "upgraded"

\* handle_ws_connection up to the loop: from_raw_socket, split, subscribe().
SessionStart(c) ==
  /\ UpgradeDone(c)
  /\ pc' = [pc EXCEPT ![c] = "running"]
  /\ subs' = subs \cup {c}
  /\ next' = [next EXCEPT ![c] = SubscribeCursor(tail)]
  /\ subAt' = [subAt EXCEPT ![c] = tail]
  /\ UNCHANGED <<histVars, envVars, httpVars, lagged, nReload, nPong, lastOut,
                 inbox, closedBy, released, watchVars, nframes>>

\* ------------------------------------------------------ broadcast channel

\* A receiver whose recv() stays pending once it has been overrun.
RecvReadyUnlessOverrun(nx, tl) == nx # tl /\ tl - nx <= Capacity

\* Receiver::recv() is ready when the cursor is behind the tail.
RecvReady(nx, tl) == nx # tl

\* The slot at the cursor has been overwritten: the receiver is more than the
\* buffer's length behind, and recv() returns Err(Lagged(missed)).
RecvLagged(nx, tl) == tl - nx > Capacity

\* A lagged receiver whose cursor stays on the overwritten slot.
RecvCursorStale(nx, tl) == IF RecvLagged(nx, tl) THEN nx ELSE nx + 1

\* A receiver that steps over an event it never returned.
RecvCursorSkips(nx, tl) ==
  IF RecvLagged(nx, tl) THEN tl - Capacity
  ELSE IF nx + 2 <= tl THEN nx + 2 ELSE nx + 1

\* The cursor after recv(): one further, or, when lagged, the oldest
\* buffered position (tail - buffer length).
RecvCursor(nx, tl) == IF RecvLagged(nx, tl) THEN tl - Capacity ELSE nx + 1

\* A channel with back-pressure: send waits while a receiver is a full
\* buffer behind.
SendWaitsForSlowest(rx, nx, tl) == tl - nx < Capacity

\* A channel that refuses a value once its buffer has filled.
SendTailDropsWhenFull(rx, tl) ==
  IF rx # {} /\ tl < Capacity THEN tl + 1 ELSE tl

\* Sender::send(()): Err(SendError) when no Receiver is alive (the value is
\* not stored), else the value is written at the tail, overwriting the
\* oldest slot when the buffer is full.  It never waits.
SendStores(rx) == rx # {}

SendReady(rx, nx, tl) == TRUE

SendTail(rx, tl) == IF SendStores(rx) THEN tl + 1 ELSE tl

\* ------------------------------------------------------------ the session

\* A handler that closes the transport and stays in the loop.
EndSessionKeepsLooping(c, why) ==
  /\ inbox' = [inbox EXCEPT ![c] = << >>]
  /\ closedBy' = [closedBy EXCEPT ![c] = why]
  /\ released' = [released EXCEPT ![c] = @ + 1]
  /\ UNCHANGED <<pc, subs, fresh, next, subAt>>

\* The session task returns: ws_tx, ws_rx and reload_rx are dropped, which
\* closes the transport and releases the subscription (the Receiver, with
\* its cursor and its starting position, is gone, and nothing is pending
\* for it any more).
EndSession(c, why) ==
  /\ pc' = [pc EXCEPT ![c] = "closed"]
  /\ subs' = subs \ {c}
  /\ inbox' = [inbox EXCEPT ![c] = << >>]
  /\ fresh' = [fresh EXCEPT ![c] = FALSE]
  /\ next' = [next EXCEPT ![c] = 0]
  /\ subAt' = [subAt EXCEPT ![c] = 0]
  /\ closedBy' = [closedBy EXCEPT ![c] = why]
  /\ released' = [released EXCEPT ![c] = @ + 1]

\* A loop that logs a receive error and carries on.
BreaksLoopNotOnError(m) == m.k \in {"Close", "End"}

\* A loop that also ends on a text frame.
BreaksLoopOnText(m) == m.k \in {"Close", "End", "Err", "Text"}

\* Does this item of the inbound stream break the loop?
\* Some(Ok(Message::Close(_))) | None, and Some(Err(e)).
BreaksLoop(m) == m.k \in {"Close", "End", "Err"}

\* A failed Pong send: `ws_tx.send(Message::Pong(data)).await?` returns the
\* error in server.rs; ws.rs discards it with `let _ =`.
PongFailureEnds == build = "server"

\* A Pong that drops the Ping's payload.
PongReplyEmpty(m) == PongFrame("")

\* The reply to Message::Ping(data): Message::Pong(data).
PongReply(m) == PongFrame(m.p)

\* The `msg = ws_rx.next()` branch of select!, with its handler.  `sends`
\* holds the outcomes ws_tx.send(..).await can have: TRUE for Ok, FALSE for
\* an I/O error.
RecvFrame(c, sends) ==
  /\ pc[c] = "running"
  /\ inbox[c] # << >>
  /\ LET m == Head(inbox[c]) IN
       IF BreaksLoop(m)
         THEN /\ EndSession(c, "peer")
              /\ UNCHANGED <<nPong, lastOut>>
         ELSE IF m.k = "Ping"
           THEN \E ok \in sends :
                  IF ok
                    THEN /\ nPong' = [nPong EXCEPT ![c] = @ + 1]
                         /\ lastOut' = [lastOut EXCEPT ![c] = PongReply(m)]
                         /\ inbox' = [inbox EXCEPT ![c] = Tail(@)]
                         /\ UNCHANGED <<pc, subs, next, subAt, fresh, closedBy,
                                        released>>
                    ELSE /\ UNCHANGED <<nPong, lastOut>>
                         /\ IF PongFailureEnds
                              THEN EndSession(c, "send")
                              ELSE /\ inbox' = [inbox EXCEPT ![c] = Tail(@)]
                                   /\ UNCHANGED <<pc, subs, next, subAt, fresh,
                                                  closedBy, released>>
           ELSE /\ inbox' = [inbox EXCEPT ![c] = Tail(@)]
                /\ UNCHANGED <<pc, subs, next, subAt, fresh, closedBy, released,
                               nPong, lastOut>>
  /\ UNCHANGED <<early, envVars, httpVars, lagged, nReload, watchVars, nframes>>

\* A read whose cancellation loses the item it had started on.
CancelledLosesHead(q) == IF q = << >> THEN q ELSE Tail(q)

\* select! drops the future of the branch it did not take.  Dropping
\* ws_rx.next() loses nothing: the items not yet yielded stay in the stream.
Cancelled(q) == q

\* The `_ = reload_rx.recv()` branch of select!, with its handler: whatever
\* recv() returned (Ok(()) or Err(Lagged)), one `reload` text frame is sent;
\* a failed send breaks the loop.
RecvReload(c, sends) ==
  /\ pc[c] = "running"
  /\ RecvReady(next[c], tail)
  /\ lagged' = [lagged EXCEPT ![c] = @ \/ RecvLagged(next[c], tail)]
  /\ \E ok \in sends :
       IF ok
         THEN /\ next' = [next EXCEPT ![c] = RecvCursor(@, tail)]
              /\ nReload' = [nReload EXCEPT ![c] = @ + 1]
              /\ lastOut' = [lastOut EXCEPT ![c] = ReloadFrame]
              /\ fresh' = [fresh EXCEPT ![c] = FALSE]
              /\ inbox' = [inbox EXCEPT ![c] = Cancelled(@)]
              /\ UNCHANGED <<pc, subs, subAt, closedBy, released>>
         ELSE /\ EndSession(c, "send")
              /\ UNCHANGED <<nReload, lastOut>>
  /\ UNCHANGED <<envVars, httpVars, nPong, watchVars, nframes, early>>

\* ------------------------------------------------------------- the clients

\* No item that ends the inbound stream is queued yet.
StreamOpen(c) == \A i \in 1 .. Len(inbox[c]) : ~BreaksLoop(inbox[c][i])

\* A client that has its 101 response sends a frame, closes, or its
\* connection fails for reading; at most qlen items wait unread.
ClientSend(c, m, limit, qlen) ==
  /\ pc[c] \in {"upgraded", "running"}
  /\ nframes < limit
  /\ Len(inbox[c]) < qlen
  /\ StreamOpen(c)
  /\ inbox' = [inbox EXCEPT ![c] = Append(@, m)]
  /\ nframes' = nframes + 1
  /\ UNCHANGED <<histVars, envVars, pc, httpVars, subs, next, subAt, lagged,
                 nReload, nPong, lastOut, closedBy, released, watchVars>>

\* ------------------------------------------------------------ the watcher

\* notify's callback puts one result into the std mpsc channel.
Notify(k, limit, qlen) ==
  /\ watcher = "watching"
  /\ nfs < limit
  /\ Len(fsq) < qlen
  /\ fsq' = Append(fsq, k)
  /\ nfs' = nfs + 1
  /\ UNCHANGED <<histVars, envVars, pc, httpVars, sessVars, tail, watcher, werr,
                 nframes>>

\* A bridge that forwards modifications only.
ForwardedModifyOnly(k) == k = "Modify"

\* Is this result forwarded?  Ok(Event { kind: Modify | Create | Remove }).
Forwarded(k) == k \in ChangeKinds

\* An Err result is written to stderr by server.rs (`eprintln!("watch
\* error: ..")`); lib.rs drops it with filter_map(|res| res.ok()).
LogsWatchError == build = "server"

\* One round of `for res in rx`: a change event is published with
\* `let _ = reload_tx.send(())`, an Err is logged, the rest is skipped.
WatchStep ==
  /\ watcher \in {"watching", "closing"}
  /\ fsq # << >>
  /\ IF Forwarded(Head(fsq))
       THEN /\ \A c \in subs : SendReady(subs, next[c], tail)
            /\ tail' = SendTail(subs, tail)
            /\ fresh' = [c \in Conns |-> (c \in subs) \/ fresh[c]]
            /\ early' = [c \in Conns |-> IF pc[c] = "upgraded"
                                           THEN early[c] + 1 ELSE early[c]]
       ELSE UNCHANGED <<tail, histVars>>
  /\ werr' = IF Head(fsq) = "Error" /\ LogsWatchError THEN werr + 1 ELSE werr
  /\ fsq' = Tail(fsq)
  /\ UNCHANGED <<envVars, pc, httpVars, sessVars, nfs, watcher, nframes>>

\* The watch source ends: every Sender of the mpsc channel is gone (notify
\* has dropped its event handler), so `rx` yields what is queued and then
\* ends.
SourceEnd ==
  /\ watcher = "watching"
  /\ watcher' = "closing"
  /\ UNCHANGED <<histVars, envVars, pc, httpVars, sessVars, tail, fsq, nfs,
                 werr, nframes>>

\* `for res in rx` ends: the closure returns and the watcher thread is gone.
WatchEnd ==
  /\ watcher = "closing"
  /\ fsq = << >>
  /\ watcher' = "ended"
  /\ UNCHANGED <<histVars, envVars, pc, httpVars, sessVars, tail, fsq, nfs,
                 werr, nframes>>

\* ------------------------------------------------------ the specifications

Next ==
  \/ \E c \in Conns, p \in Paths, u \in Upgrades : Accept(c, p, u, RfcKey)
  \/ \E c \in Conns : Serve(c)
  \/ \E c \in Conns : Flush101(c)
  \/ \E c \in Conns : UpgradeErr(c)
  \/ \E c \in Conns : SessionStart(c)
  \/ \E c \in Conns : RecvFrame(c, BOOLEAN)
  \/ \E c \in Conns : RecvReload(c, BOOLEAN)
  \/ \E c \in Conns, m \in Inbound : ClientSend(c, m, MaxFrames, 1)
  \/ Notify("Modify", MaxEvents, 1)
  \/ WatchStep

Spec == Init /\ [][Next]_vars

\* The lag scenario: the clients connect before the first filesystem event,
\* the source then raises a burst of change events, and a client may close.
LagNext ==
  \/ \E c \in Conns : nfs = 0 /\ Accept(c, LiveReloadPath, "websocket", RfcKey)
  \/ \E c \in Conns : Serve(c)
  \/ \E c \in Conns : Flush101(c)
  \/ \E c \in Conns : SessionStart(c)
  \/ \E c \in Conns : RecvFrame(c, {TRUE})
  \/ \E c \in Conns : RecvReload(c, {TRUE})
  \/ \E c \in Conns : ClientSend(c, CloseFrame, LagFrames, 1)
  \/ /\ \A c \in Conns : pc[c] \in {"idle", "running", "closed"}
     /\ Notify("Modify", LagEvents, 1)
  \/ WatchStep

LagSpec == Init /\ [][LagNext]_vars

\* The burst scenario: the lag scenario with clients that stay connected.
BurstNext ==
  \/ \E c \in Conns : nfs = 0 /\ Accept(c, LiveReloadPath, "websocket", RfcKey)
  \/ \E c \in Conns : Serve(c)
  \/ \E c \in Conns : Flush101(c)
  \/ \E c \in Conns : SessionStart(c)
  \/ \E c \in Conns : RecvReload(c, {TRUE})
  \/ /\ \A c \in Conns : pc[c] \in {"idle", "running"}
     /\ Notify("Modify", LagEvents, 1)
  \/ WatchStep

\* Fair scheduling of the session tasks: a session whose recv() is ready is
\* polled by the runtime, and select! takes a branch that stays ready.
FairBurstSpec ==
  Init /\ [][BurstNext]_vars /\ \A c \in Conns : WF_vars(RecvReload(c, {TRUE}))

\* The handshake scenario: requests to the reload path, with any Upgrade
\* header and any key, and the sessions they start.
HandshakeNext ==
  \/ \E c \in Conns, u \in Upgrades, k \in Keys : Accept(c, LiveReloadPath, u, k)
  \/ \E c \in Conns : Serve(c)
  \/ \E c \in Conns : Flush101(c)
  \/ \E c \in Conns : UpgradeErr(c)
  \/ \E c \in Conns : SessionStart(c)

HandshakeSpec == Init /\ [][HandshakeNext]_vars

\* The content scenario: any tree under the root, any PROD value, requests
\* without an Upgrade header, one after the other on each connection.
ContentInit ==
  /\ New
  /\ prod \in ProdValues
  /\ files \in FileSystems
  /\ srv = "accepting"
  /\ watcher = "watching"

ContentNext ==
  \/ \E c \in Conns, p \in ContentPaths : Accept(c, p, "absent", "")
  \/ \E c \in Conns : Serve(c)
  \/ \E c \in Conns : NextRequest(c)

ContentSpec == ContentInit /\ [][ContentNext]_vars

\* The startup scenario: run() from its first line, the watcher thread from
\* its spawn, then clients and filesystem events.
StartNext ==
  \/ \E ok \in BOOLEAN : Bind(ok)
  \/ Watch
  \/ \E outcome \in StartOutcomes : WatcherStart(outcome)
  \/ \E c \in Conns : Accept(c, LiveReloadPath, "websocket", RfcKey)
  \/ \E c \in Conns : Serve(c)
  \/ \E c \in Conns : Flush101(c)
  \/ \E c \in Conns : SessionStart(c)
  \/ \E c \in Conns : RecvReload(c, {TRUE})
  \/ Notify("Modify", MaxEvents, 1)
  \/ WatchStep

StartSpec == StartInit /\ [][StartNext]_vars

\* The watch scenario: results of every kind from the watch source, which
\* may end, with clients that connect before the first of them.
WatchNext ==
  \/ \E c \in Conns : nfs = 0 /\ Accept(c, LiveReloadPath, "websocket", RfcKey)
  \/ \E c \in Conns : Serve(c)
  \/ \E c \in Conns : Flush101(c)
  \/ \E c \in Conns : SessionStart(c)
  \/ \E c \in Conns : RecvReload(c, {TRUE})
  \/ \E k \in FsKinds : Notify(k, MaxEvents, 2)
  \/ WatchStep
  \/ SourceEnd
  \/ WatchEnd

WatchSpec == Init /\ [][WatchNext]_vars

\* The session observed in the frame scenario; no other client connects.
FrameConns == {"c1"}

\* The frame scenario: the client connects first, then sends frames of
\* every kind while change events are published; no send fails.
FrameNext ==
  \/ \E c \in FrameConns :
       nfs = 0 /\ nframes = 0 /\ Accept(c, LiveReloadPath, "websocket", RfcKey)
  \/ \E c \in FrameConns : Serve(c)
  \/ \E c \in FrameConns : Flush101(c)
  \/ \E c \in FrameConns : SessionStart(c)
  \/ \E c \in FrameConns : RecvFrame(c, {TRUE})
  \/ \E c \in FrameConns : RecvReload(c, {TRUE})
  \/ \E c \in FrameConns, m \in Inbound : ClientSend(c, m, MaxFrames, 1)
  \/ Notify("Modify", MaxEvents, 1)
  \/ WatchStep

\* Fair scheduling of the session tasks: select! polls both branches, and
\* takes a branch that stays ready.
FairFrameSpec ==
  /\ Init
  /\ [][FrameNext]_vars
  /\ \A c \in FrameConns : WF_vars(RecvFrame(c, {TRUE}))
  /\ \A c \in FrameConns : WF_vars(RecvReload(c, {TRUE}))

\* ------------------------------------------------------------ definitions

Running(c) == pc[c] = "running"

\* Change events published since c subscribed: every publish made while a
\* Receiver is alive advances the tail by one.
PublishedSince(c) == tail - subAt[c]

\* Events waiting in the channel for c's Receiver.
Pending(c) == tail - next[c]

\* A Ping has arrived on c's transport and has not been read yet.
PingWaiting(c) == \E i \in 1 .. Len(inbox[c]) : inbox[c][i].k = "Ping"

\* ------------------------------------------------------------------ C1

\* C1: every Running session that has never lagged has sent exactly one
\* `reload` frame for each ChangeEvent it has taken from its subscription,
\* and the frames sent plus the events still waiting for it are exactly the
\* events published since it subscribed: no event yields zero frames or two.
C1_ExactlyOneReloadPerEvent ==
  \A c \in Conns :
    (Running(c) /\ ~lagged[c] /\ ~RecvLagged(next[c], tail)) =>
      /\ nReload[c] = next[c] - subAt[c]
      /\ nReload[c] + Pending(c) = PublishedSince(c)
      /\ Pending(c) >= 0

\* Both sessions are Running, three events were published and both sessions
\* have sent their three frames.
C1_Witness ==
  /\ tail = 3
  /\ \A c \in Conns : Running(c) /\ nReload[c] = 3 /\ ~lagged[c]

\* ------------------------------------------------------------------ C4

\* Some other session has disconnected or is a full buffer (or more) behind.
OtherStalled(t) ==
  \E s \in Conns \ {t} : pc[s] = "closed" \/ (Running(s) /\ Pending(s) >= Capacity)

\* C4: whenever some session has disconnected, or has stopped consuming
\* and is a full buffer or more behind, the watcher's next round can still
\* run (the producer is not blocked), every other Running session with an
\* event waiting can still take it, and that session's frames and waiting
\* events still add up to the events published since it subscribed.
C4_StalledSessionBlocksNothing ==
  \A t \in Conns :
    OtherStalled(t) =>
      /\ (fsq # << >> => ENABLED WatchStep)
      /\ (Running(t) /\ Pending(t) > 0 => ENABLED RecvReload(t, {TRUE}))
      /\ (Running(t) /\ ~lagged[t] /\ ~RecvLagged(next[t], tail) =>
            nReload[t] + Pending(t) = PublishedSince(t))

\* c1 never consumed and is more than a full buffer behind while c2 has
\* received a frame for every one of the 17 events.
C4_Witness ==
  /\ Running("c1") /\ nReload["c1"] = 0 /\ RecvLagged(next["c1"], tail)
  /\ Running("c2") /\ nReload["c2"] = 17 /\ Pending("c2") = 0

\* ------------------------------------------------------------------ C5

\* The watcher's round at the head of its queue publishes.
Publishes == fsq # << >> /\ Forwarded(Head(fsq))

\* C5: the watcher's round is enabled whenever a result is queued, with
\* zero subscribers, with many, and with a full buffer; the round that
\* publishes removes the result from the queue (the watcher goes on) and
\* leaves one more event waiting for every session subscribed at that
\* moment.
C5_PublishNeverBlocks ==
  [][ /\ (fsq # << >> => ENABLED WatchStep)
      /\ (Publishes /\ fsq' # fsq =>
            /\ fsq' = Tail(fsq)
            /\ \A c \in subs : Running(c)' /\ Pending(c)' = Pending(c) + 1) ]_vars

\* A publish happened into a full buffer: one session is a full buffer
\* behind and a 17th event has been stored.
C5_Witness ==
  /\ tail = 17 /\ nfs = 17 /\ fsq = << >>
  /\ Running("c1") /\ next["c1"] = 0
  /\ Running("c2") /\ Pending("c2") = 1

\* ------------------------------------------------------------------ C7

\* C7: a Running session has never sent more `reload` frames than events
\* were published since it subscribed, and the recv() that reports the lag
\* moves its cursor to the oldest buffered event (tail - 16).
C7_LagSkipsNeverDuplicates ==
  [][ \A c \in Conns :
        /\ Running(c) => nReload[c] <= PublishedSince(c)
        /\ (Running(c) /\ Running(c)' /\ RecvLagged(next[c], tail)
              /\ nReload'[c] # nReload[c]) =>
             /\ next'[c] = tail - Capacity
             /\ Pending(c)' = Capacity
             /\ nReload'[c] <= PublishedSince(c)' ]_vars

\* A session lagged (18 events while it consumed none, two of them lost)
\* and has since sent one frame for the lag and one for each of the 16
\* buffered events: 17 frames for 18 events.
C7_Witness ==
  \E c \in Conns :
    Running(c) /\ lagged[c] /\ nReload[c] = 17 /\ Pending(c) = 0 /\ tail = 18

\* ------------------------------------------------------------------ C8

\* C8: under fair scheduling of the session tasks, whenever an event has
\* been published to a session since its last `reload` frame, the session
\* later sends a `reload` frame or is no longer Running; this covers the
\* session that lagged and lost the older events of the burst.
C8_EveryEventFollowedByReload ==
  \A c \in Conns : (Running(c) /\ fresh[c]) ~> (~fresh[c] \/ ~Running(c))

\* A session lagged and nevertheless sent a frame after the last event.
C8_Witness ==
  \E c \in Conns :
    Running(c) /\ lagged[c] /\ ~fresh[c] /\ nReload[c] >= 1 /\ tail = 18

\* ------------------------------------------------------------------ C2

\* The head of c's inbound stream is a Ping.
PingHead(c) == inbox[c] # << >> /\ Head(inbox[c]).k = "Ping"

\* This step takes the Ping at the head of c's inbound stream away: the
\* session reads it (or the session ends).
ReadsPing(c) ==
  Running(c) /\ PingHead(c) /\ Len(inbox'[c]) < Len(inbox[c])

\* The step sends exactly one Pong with the payload of the Ping read, and
\* nothing else, and the session goes on.
OnePongSent(c) ==
  /\ nPong'[c] = nPong[c] + 1
  /\ lastOut'[c] = PongFrame(Head(inbox[c]).p)
  /\ nReload'[c] = nReload[c]
  /\ Running(c)'

\* The step sends no frame on c.
NothingSent(c) ==
  /\ nPong'[c] = nPong[c]
  /\ nReload'[c] = nReload[c]
  /\ lastOut'[c] = lastOut[c]

\* C2 as stated, leaving failed sends aside: a Ping read is answered by
\* exactly one Pong with its payload (or by nothing when the send fails),
\* Pongs are sent for nothing else, and no `reload` frame is sent on a
\* session while a Ping that has arrived on it waits for its Pong.
C2_NoFrameBetweenArrivalAndPong ==
  [][ \A c \in Conns :
        /\ ReadsPing(c) => (OnePongSent(c) \/ NothingSent(c))
        /\ nPong'[c] # nPong[c] => (ReadsPing(c) /\ OnePongSent(c))
        /\ PingWaiting(c) => nReload'[c] = nReload[c] ]_vars

\* C2 (amended): the step in which a Running session reads a Ping with
\* payload P sends exactly one Pong with payload P and no other frame, so
\* nothing is sent between that read and the Pong; only a failed send makes
\* it send nothing, and then server.rs ends the session with a send error;
\* a Pong is sent in no other step.
C2_PongFollowsPingRead ==
  [][ \A c \in Conns :
        /\ ReadsPing(c) =>
             \/ OnePongSent(c)
             \/ NothingSent(c) /\ pc'[c] = "closed" /\ closedBy'[c] = "send"
             \/ NothingSent(c) /\ Running(c)' /\ build = "ws"
        /\ nPong'[c] # nPong[c] => (ReadsPing(c) /\ OnePongSent(c)) ]_vars

\* A session answered Ping("b") with Pong("b") after having sent a reload.
C2_Witness ==
  \E c \in Conns :
    Running(c) /\ lastOut[c] = PongFrame("b") /\ nPong[c] = 1 /\ nReload[c] = 1
      /\ inbox[c] = << >>

\* ------------------------------------------------------------------ C3

\* The head of c's inbound stream is a Close frame, a receive error or the
\* end of the stream.
EndingHead(c) ==
  inbox[c] # << >> /\ Head(inbox[c]).k \in {"Close", "Err", "End"}

\* C3: the step in which a Running session reads a Close frame, a receive
\* error or the end of its inbound stream ends the session and releases its
\* subscription; from then on the session stays closed and unsubscribed, no
\* event published later becomes pending for it, and no frame is sent on it.
C3_CloseEndsSession ==
  [][ \A c \in Conns :
        /\ (Running(c) /\ EndingHead(c) /\ inbox'[c] # inbox[c]) =>
             (pc'[c] = "closed" /\ c \notin subs')
        /\ pc[c] = "closed" =>
             /\ pc'[c] = "closed"
             /\ c \notin subs /\ c \notin subs'
             /\ ~fresh'[c]
             /\ nReload'[c] = nReload[c]
             /\ nPong'[c] = nPong[c]
             /\ lastOut'[c] = lastOut[c] ]_vars

\* A session received one event and was then closed by an inbound item;
\* the other session is Running and a further change event is queued at
\* the watcher, to be published after the close.
C3_Witness ==
  \E c \in Conns :
    /\ pc[c] = "closed" /\ closedBy[c] = "peer" /\ nReload[c] = 1
    /\ \E d \in Conns \ {c} : Running(d)
    /\ fsq = <<"Modify">>

\* ------------------------------------------------------------------ C6

\* C6: no `reload` frame is sent on a connection that has not subscribed,
\* and for a Running session the frames sent plus the events waiting for it
\* never exceed the events published since its subscribe() call: an event
\* published before that call is never delivered to it.
C6_NoBacklogReplay ==
  \A c \in Conns :
    /\ pc[c] \notin {"running", "closed"} => nReload[c] = 0
    /\ Running(c) =>
         /\ next[c] >= subAt[c]
         /\ nReload[c] + Pending(c) <= PublishedSince(c)

\* An event was published (and stored for another subscriber) after c's 101
\* response and before c subscribed; c has since sent one frame, for the
\* one event published after it subscribed.
C6_Witness ==
  \E c \in Conns :
    /\ Running(c) /\ early[c] = 1 /\ subAt[c] = 1
    /\ tail = 2 /\ nReload[c] = 1 /\ Pending(c) = 0

\* ------------------------------------------------------------------ C9

\* The session task of c has been spawned.
TaskSpawned(c) ==
  pc[c] \in {"upgrading", "upgraded", "running", "closed", "failed"}

C10_FlushBeforeSession ==
  \A c \in Conns :
    /\ ~flushed[c] =>
         /\ pc[c] \notin {"upgraded", "running", "closed"}
         /\ c \notin subs
         /\ nReload[c] = 0 /\ nPong[c] = 0 /\ lastOut[c] = NoFrame
         /\ inbox[c] = << >>
    /\ pc[c] = "failed" =>
         /\ c \notin subs
         /\ nReload[c] = 0 /\ nPong[c] = 0 /\ lastOut[c] = NoFrame

\* One session runs after its flushed 101 and has sent a frame; the other
\* connection's upgrade failed.
C10_Witness ==
  /\ Running("c1") /\ flushed["c1"] /\ nReload["c1"] = 1
  /\ pc["c2"] = "failed" /\ ~flushed["c2"]

\* ------------------------------------------------------------------ C11

\* C11: when the watcher cannot be created or attached to the root, run()
\* has aborted with an error and the server accepts no connection: no
\* request is ever parsed.
C11_WatchFailureIsFatal ==
  watcher = "panicked" => (srv = "aborted" /\ \A c \in Conns : pc[c] = "idle")

\* ------------------------------------------------------------------ C12

\* The file the request of c resolves to.
Resolved(c) == Resolve(files, req[c].path)

\* c has its content response, for a request that resolves to a file of
\* the tree.
ServedFile(c) == pc[c] = "content" /\ Resolved(c) \in DOMAIN files

\* C12: the response to a request that resolves to an existing file is 200
\* and carries the file's bytes; the bootstrap snippet is appended at the
\* end when the file is HTML and the process is in live-reload mode, and
\* only then.
C12_SnippetOnHtmlInLiveReloadMode ==
  \A c \in Conns :
    ServedFile(c) =>
      /\ resp[c] = "200"
      /\ body[c] =
           IF ContentType(Resolved(c).ext) = "text/html" /\ is_livereload
             THEN files[Resolved(c)].bytes \o LIVE_RELOAD_SCRIPT
             ELSE files[Resolved(c)].bytes

\* ------------------------------------------------------------------ C13

\* The request of c resolves to nothing that can be opened: neither a file
\* of the tree nor a directory.
Unresolved(c) ==
  Resolved(c) \notin DOMAIN files /\ ~IsDir(files, Resolved(c))

GuidString == Str(WEBSOCKET_GUID)
KeyStrings == [k \in Keys |-> Str(KeyChars(k))]
RfcDigest == Sha1(as_bytes(KeyChars(RfcKey)) \o as_bytes(WEBSOCKET_GUID))

\* C14: the Sec-WebSocket-Accept header of a 101 response is the base64 of
\* the 20-byte SHA-1 of the request's key followed by the GUID
\* 258EAFA5-E914-47DA-95CA-C5AB0DC85B11; for the key of RFC 6455,
\* dGhlIHNhbXBsZSBub25jZQ==, it is s3pPLMBiTxaQ9kYGzzhZRbK+xOo=.
C14_AcceptValue ==
  /\ GuidString = "258EAFA5-E914-47DA-95CA-C5AB0DC85B11"
  /\ Len(RfcDigest) = 20
  /\ \A c \in Conns :
       resp[c] = "101" =>
         /\ KeyStrings[req[c].key] = req[c].key
         /\ Len(hdr[c]) = 28
         /\ hdr[c] = AcceptTable[req[c].key]
         /\ req[c].key = "dGhlIHNhbXBsZSBub25jZQ==" =>
              /\ hdr[c] = Base64(RfcDigest)
              /\ hdr[c] = "s3pPLMBiTxaQ9kYGzzhZRbK+xOo="

\* One 101 response answers the RFC's key with the RFC's accept value while
\* another answers a different key with a different value.
C14_Witness ==
  /\ resp["c1"] = "101" /\ req["c1"].key = RfcKey
  /\ hdr["c1"] = "s3pPLMBiTxaQ9kYGzzhZRbK+xOo="
  /\ resp["c2"] = "101" /\ req["c2"].key # RfcKey
  /\ hdr["c2"] # hdr["c1"]

\* ------------------------------------------------------------------ C15

\* This step is a failed send on c: the session ends with a send error, or
\* the Ping at the head of its inbound stream is taken and nothing is sent.
SendFails(c) ==
  \/ Running(c) /\ pc'[c] = "closed" /\ closedBy'[c] = "send"
  \/ ReadsPing(c) /\ NothingSent(c)

\* C15: a failed send, of the `reload` frame or of a Pong, moves the
\* session to Closed and releases its subscription, and leaves every other
\* session and the server as they were.
C15_SendErrorEndsSession ==
  [][ \A c \in Conns :
        SendFails(c) =>
          /\ pc'[c] = "closed" /\ c \notin subs'
          /\ srv' = srv
          /\ \A d \in Conns \ {c} :
               /\ pc'[d] = pc[d]
               /\ (d \in subs') = (d \in subs)
               /\ inbox'[d] = inbox[d] ]_vars

\* ------------------------------------------------------------------ C16

\* C16: a session's transport is released when the session reaches Closed,
\* exactly once (it is released if and only if the session is Closed, and
\* never a second time); a Closed session stays Closed and unsubscribed,
\* and no `reload` or Pong frame is sent on it, whatever is published.
C16_ClosedIsTerminal ==
  [][ \A c \in Conns :
        /\ released'[c] <= 1
        /\ (pc'[c] = "closed") = (released'[c] = 1)
        /\ pc[c] = "closed" =>
             /\ pc'[c] = "closed"
             /\ released'[c] = released[c]
             /\ c \notin subs'
             /\ nReload'[c] = nReload[c]
             /\ nPong'[c] = nPong[c]
             /\ lastOut'[c] = lastOut[c] ]_vars

\* A session sent one frame and was closed by a failed send; its transport
\* was released once, the other session is Running and a change event is
\* about to be published.
C16_Witness ==
  \E c \in Conns :
    /\ pc[c] = "closed" /\ closedBy[c] = "send" /\ released[c] = 1
    /\ nReload[c] = 1
    /\ \E d \in Conns \ {c} : Running(d) /\ released[d] = 0
    /\ fsq = <<"Modify">>

\* ------------------------------------------------------------------ C17

\* The head of c's inbound stream is a frame that is neither Close nor
\* Ping: Text, Binary or Pong.
OtherHead(c) ==
  inbox[c] # << >> /\ Head(inbox[c]).k \in {"Text", "Binary", "Pong"}

\* C17: the step in which a Running session reads a Text, Binary or Pong
\* frame (the frame leaves its inbound stream, and the step is not a failed
\* `reload` send) leaves the session Running and subscribed, sends no
\* frame, and leaves its cursor and the events pending for it unchanged.
C17_OtherFramesIgnored ==
  [][ \A c \in Conns :
        (Running(c) /\ OtherHead(c) /\ inbox'[c] = Tail(inbox[c])
           /\ closedBy'[c] # "send") =>
          /\ Running(c)'
          /\ NothingSent(c)
          /\ c \in subs'
          /\ next'[c] = next[c]
          /\ subAt'[c] = subAt[c]
          /\ Pending(c)' = Pending(c) ]_vars

\* In the server.rs build, the only frame a client sent was read by a
\* session that answered no Pong and still runs, with one `reload` sent and
\* one event still pending for it.
C17_Witness ==
  \E c \in Conns :
    /\ build = "server" /\ Running(c) /\ nframes = 1 /\ inbox[c] = << >>
    /\ \A d \in Conns \ {c} : pc[d] = "idle"
    /\ nPong[c] = 0 /\ nReload[c] = 1 /\ Pending(c) = 1 /\ tail = 2

\* ------------------------------------------------------------------ C18

\* This step is one round of the bridge: it takes the result at the head of
\* the watch source's queue.
WatchRound == fsq # << >> /\ fsq' = Tail(fsq)

\* C18: a round of the bridge on a modify, create or remove event puts
\* exactly one ChangeEvent into the channel (one more event is pending for
\* every subscribed session; with no subscriber the channel keeps nothing),
\* a round on any other event kind or on an error result puts none, and
\* nothing else puts a ChangeEvent into the channel.
C18_OneChangeEventPerChange ==
  [][ /\ WatchRound =>
           IF Head(fsq) \in {"Modify", "Create", "Remove"}
             THEN /\ tail' = IF subs # {} THEN tail + 1 ELSE tail
                  /\ \A c \in subs : Pending(c)' = Pending(c) + 1
             ELSE /\ tail' = tail
                  /\ \A c \in subs : Pending(c)' = Pending(c)
      /\ tail' # tail => WatchRound ]_vars

\* In the server.rs build the bridge has taken two results, an error (it
\* is logged) and a change: one event was published to a session that was
\* subscribed from the start.
C18_Witness ==
  /\ build = "server" /\ werr = 1 /\ nfs = 2 /\ fsq = << >> /\ tail = 1
  /\ \E c \in Conns :
       Running(c) /\ subAt[c] = 0 /\ nReload[c] + Pending(c) = 1

\* ------------------------------------------------------------------ C19

\* The result at the head of the queue cannot be forwarded: it is an error
\* result of the source, or a change event while no session is subscribed.
ForwardingFails ==
  \/ Head(fsq) = "Error"
  \/ Head(fsq) \in ChangeKinds /\ subs = {}

\* C19: a round of the bridge whose forwarding fails writes one line to the
\* log and leaves the bridge running; while the bridge runs, a change
\* event is still published to the subscribed sessions; and once the source
\* has ended and the bridge has stopped, it stays stopped and nothing is
\* published any more.
C19_FailureLoggedBridgeContinues ==
  [][ /\ (WatchRound /\ ForwardingFails) =>
           (werr' = werr + 1 /\ watcher' = watcher)
      /\ (WatchRound /\ Head(fsq) \in ChangeKinds /\ subs # {}) =>
           tail' = tail + 1
      /\ watcher = "ended" =>
           (watcher' = "ended" /\ tail' = tail /\ fsq' = fsq) ]_vars

\* ------------------------------------------------------------------ C20

\* An inbound frame and a ChangeEvent are ready for c at the same time.
BothReady(c) == Running(c) /\ inbox[c] # << >> /\ Pending(c) > 0

\* C20: in a Running session, under fair scheduling and with sends that
\* succeed: the round that takes a ChangeEvent sends one `reload` frame and
\* leaves the inbound stream as it is; the round that reads a frame leaves
\* the subscription's cursor as it is; and when both are ready, the Ping
\* waiting gets its Pong, the Close (or error, or end) waiting closes the
\* session, and the event waiting gets its `reload` frame, in later rounds.
C20_NeitherSourceDiscarded ==
  /\ [][ \A c \in Conns :
           /\ (Running(c) /\ next'[c] # next[c] /\ Running(c)') =>
                /\ nReload'[c] = nReload[c] + 1
                /\ lastOut'[c] = ReloadFrame
                /\ inbox'[c] = inbox[c]
           /\ (Running(c) /\ inbox'[c] # inbox[c] /\ Running(c)') =>
                /\ next'[c] = next[c]
                /\ Len(inbox'[c]) > Len(inbox[c]) \/ inbox'[c] = Tail(inbox[c])
                /\ nReload'[c] = nReload[c] ]_vars
  /\ \A c \in Conns, n \in 0 .. MaxFrames :
       (BothReady(c) /\ PingHead(c) /\ nPong[c] = n)
         ~> (nPong[c] = n + 1 /\ lastOut[c].k = "Pong")
  /\ \A c \in Conns :
       (BothReady(c) /\ EndingHead(c)) ~> (pc[c] = "closed")
  /\ \A c \in Conns, n \in 0 .. MaxEvents :
       (BothReady(c) /\ nReload[c] = n) ~> (nReload[c] > n \/ pc[c] = "closed")

\* A session that has already sent one `reload` frame has a Ping waiting
\* and a further event pending, both ready at once.
C20_Witness ==
  \E c \in Conns :
    BothReady(c) /\ PingHead(c) /\ Pending(c) = 1 /\ nReload[c] = 1
      /\ nPong[c] = 0

====
